---- MODULE Spec2Model ----
(***************************************************************************)
(* Pi-Patrol: the face recogniser (pi_patrol.py, LBPHRecognizer), the      *)
(* frame broker and web API (web_server.py) and the motion loop            *)
(* (pi_patrol.py, PiPatrol.run).                                           *)
(*                                                                         *)
(* The methods spelled _init_ in the source are read as the constructors   *)
(* of their classes: Init is the state after PiPatrol() has been built and *)
(* the web server has been launched.                                       *)
(***************************************************************************)
EXTENDS Integers, Sequences, FiniteSets, TLC

None == "None"
Unknown == "Unknown"

\* ------------------------------------------------------------------------
\* Program constants
\* ------------------------------------------------------------------------
CONFIDENCE_THRESHOLD == 70
IDLE_TIMEOUT == 10
VIDEO_DURATION == 5
stream_fps == 15

\* ------------------------------------------------------------------------
\* Bounds of the model
\* ------------------------------------------------------------------------
MaxEntries == 3
MaxFaces == 2
MaxPublish == 2
StreamHorizon == 1
ApiHorizon == 1
LoopHorizon == 3

VARIABLES
    \* LBPHRecognizer
    listing,        \* faces_dir.iterdir(), in enumeration order
    labels,         \* self.labels : label id -> person name
    model_labels,   \* the label ids the trained LBPH model answers with
    results         \* the list recognize_faces returned last

recogVars == <<listing, labels, model_labels, results>>

VARIABLES
    \* the clock read by time.time() and datetime.now(), in ticks
    now,
    \* web_server.py globals
    camera_lock,            \* "free" or the holder
    current_frame,
    encoded_jpeg,
    current_label,
    live_preview_enabled,
    last_frame_time,
    live_file,              \* the content of LIVE_PATH (events/live.jpg)
    label_call,             \* the set_frame call that wrote current_label
    time_call,              \* the set_frame call that wrote last_frame_time
    \* the set_frame call in progress
    sf_pc, sf_frame, sf_label, sf_ret, sf_raised, sf_calls

brokerVars == <<camera_lock, current_frame, encoded_jpeg, current_label,
                live_preview_enabled, last_frame_time, live_file,
                label_call, time_call>>
sfVars == <<sf_pc, sf_frame, sf_label, sf_ret, sf_raised, sf_calls>>

VARIABLES
    \* generate_stream, one generator per /live connection
    gs_pc, gs_now, gs_last_sent_time, gs_frame, gs_wake, gs_out,
    \* toggle_preview, one per request in flight
    tg_pc, tg_enable, tg_ret

VARIABLES
    \* status, the request in flight and the response it builds
    st_pc, st_label, st_preview, st_time, st_label_call, st_time_call,
    \* enroll_face, one per request in flight
    en_pc, en_name, en_frame, en_filename, en_result,
    \* FACES_DIR: whether it exists, and its files (filename -> image)
    faces_dir, faces_files

stVars == <<st_pc, st_label, st_preview, st_time, st_label_call, st_time_call>>
enVars == <<en_pc, en_name, en_frame, en_filename, en_result>>
fsVars == <<faces_dir, faces_files>>

VARIABLES
    \* PiPatrol
    camera,             \* self.camera: None or the open device
    last_motion_time,   \* self.last_motion_time
    recorders,          \* the clip tasks recording on the open device
    \* PiPatrol.run and its locals
    run_pc, motion, frame, person, img_path, run_wake,
    pir,                \* what GPIO.input answered in check_pir_motion
    drawn,              \* the names capture_frame drew on the frame
    \* patrol.db events, EVENTS_DIR
    events, event_files,
    \* the record_clip threads, numbered as they are started
    clips_started, rc_pc, rc_path, rc_wake

patrolVars == <<camera, last_motion_time, recorders>>
runVars == <<run_pc, motion, frame, person, img_path, run_wake, drawn, pir>>
storeVars == <<events, event_files>>
clipVars == <<clips_started, rc_pc, rc_path, rc_wake>>
loopVars == <<patrolVars, runVars, storeVars, clipVars>>

gsVars == <<gs_pc, gs_now, gs_last_sent_time, gs_frame, gs_wake, gs_out>>
tgVars == <<tg_pc, tg_enable, tg_ret>>

vars == <<recogVars, now, brokerVars, sfVars, gsVars, tgVars, stVars, enVars,
          fsVars, loopVars>>

\* ------------------------------------------------------------------------
\* LBPHRecognizer
\* ------------------------------------------------------------------------
\* An entry of the corpus directory: person folders (with or without
\* readable *.jpg samples), the persisted model file, an enrolled image.
Entry(n, d, j) == [name |-> n, is_dir |-> d, jpgs |-> j]

EntryPool ==
    { Entry("alice", TRUE, 1), Entry("bob", TRUE, 1), Entry("carol", TRUE, 0),
      Entry("model.yml", FALSE, 0), Entry("dave20240101120000.jpg", FALSE, 0) }

Injective(s) == \A i, j \in 1..Len(s) : i # j => s[i] # s[j]

Listings ==
    { s \in UNION { [1..n -> EntryPool] : n \in 0..MaxEntries } : Injective(s) }

model_path_exists(l) == \E i \in 1..Len(l) : l[i].name = "model.yml"

\* enumerate(iterdir()) numbers every entry; the filter only drops the
\* entries that are no directory.
load_labels(l) ==
    [ i \in { k - 1 : k \in { k \in 1..Len(l) : l[k].is_dir } } |-> l[i + 1].name ]

\* label_id is incremented only after a directory has been taken.
DirsBefore(l, k) == Cardinality({ j \in 1..(k - 1) : l[j].is_dir })

train_labels(l) ==
    [ i \in { DirsBefore(l, k) : k \in { k \in 1..Len(l) : l[k].is_dir } } |->
        l[CHOOSE k \in 1..Len(l) : l[k].is_dir /\ DirsBefore(l, k) = i].name ]

\* The label ids that got at least one sample: the ids predict can answer.
trained_ids(l) ==
    { DirsBefore(l, k) : k \in { k \in 1..Len(l) : l[k].is_dir /\ l[k].jpgs > 0 } }

\* The constructor: read the persisted model and rebuild the labels from the
\* folder names, or train.
constructed_labels(l) ==
    IF model_path_exists(l) THEN load_labels(l) ELSE train_labels(l)

\* labels.get(label_id, "Unknown")
labels_get(m, id) == IF id \in DOMAIN m THEN m[id] ELSE Unknown

\* What recognizer.predict(roi) can do on one face region.
ConfValues == {45, 69, 70, 79}

PredictOutcomes(ids) ==
    [raised : {FALSE}, label_id : ids, conf : ConfValues]
        \cup { [raised |-> TRUE, label_id |-> -1, conf |-> 0] }

\* Lines 146-155: one (name, conf) per face region.
detection(m, p) ==
    IF p.raised THEN [name |-> Unknown, conf |-> 100]
    ELSE IF p.conf < CONFIDENCE_THRESHOLD
         THEN [name |-> labels_get(m, p.label_id), conf |-> p.conf]
         ELSE [name |-> Unknown, conf |-> p.conf]

recognize_faces(ps) == [ i \in 1..Len(ps) |-> detection(labels, ps[i]) ]

\* ------------------------------------------------------------------------
\* Time
\* ------------------------------------------------------------------------
TicksPerSecond == stream_fps

\* time.sleep(ms / 1000) returns no earlier than after this many ticks.
SleepTicks(ms) == (ms * TicksPerSecond) \div 1000

\* strftime('%Y%m%d%H%M%S') and int(time.time()): the whole second.
Second(t) == t \div TicksPerSecond

\* time.time() when the program starts: later than IDLE_TIMEOUT after the
\* epoch, at which last_motion_time = 0 lies.
StartTime == (IDLE_TIMEOUT + 1) * TicksPerSecond

\* ------------------------------------------------------------------------
\* web_server.py: the frame broker
\* ------------------------------------------------------------------------
NoFrame == 0
NoBytes == <<>>

\* cv2.imencode(".jpg", frame, [IMWRITE_JPEG_QUALITY, 70])[1].tobytes()
imencode(f) == <<"jpg", 70, f>>

Streams == {"live_1"}
Togglers == {"toggle_1", "toggle_2"}
Enrollers == {"enroll_1", "enroll_2"}
NoFile == <<>>

InitBroker ==
    /\ now = StartTime
    /\ camera_lock = "free"
    /\ current_frame = NoFrame
    /\ encoded_jpeg = NoBytes
    /\ current_label = Unknown
    /\ live_preview_enabled = FALSE
    /\ last_frame_time = 0
    /\ label_call = 0
    /\ time_call = 0
    /\ sf_pc = "idle"
    /\ sf_frame = NoFrame
    /\ sf_label = Unknown
    /\ sf_ret = FALSE
    /\ sf_raised = FALSE
    /\ sf_calls = 0

InitWeb ==
    /\ InitBroker
    /\ live_file = NoFrame
    /\ gs_pc = [s \in Streams |-> "closed"]
    /\ gs_now = [s \in Streams |-> 0]
    /\ gs_last_sent_time = [s \in Streams |-> 0]
    /\ gs_frame = [s \in Streams |-> NoBytes]
    /\ gs_wake = [s \in Streams |-> 0]
    /\ gs_out = [s \in Streams |-> <<>>]
    /\ tg_pc = [t \in Togglers |-> "idle"]
    /\ tg_enable = [t \in Togglers |-> FALSE]
    /\ tg_ret = [t \in Togglers |-> FALSE]
    /\ st_pc = "idle"
    /\ st_label = Unknown
    /\ st_preview = FALSE
    /\ st_time = 0
    /\ st_label_call = 0
    /\ st_time_call = 0
    /\ en_pc = [e \in Enrollers |-> "idle"]
    /\ en_name = [e \in Enrollers |-> ""]
    /\ en_frame = [e \in Enrollers |-> NoFrame]
    /\ en_filename = [e \in Enrollers |-> NoFile]
    /\ en_result = [e \in Enrollers |-> ""]
    /\ faces_files = <<>>

\* set_frame(frame, label), statement by statement.  The call is entered
\* with the frame the caller captured; frames are numbered by call.
set_frame_call(label) ==
    /\ sf_pc = "idle"
    /\ sf_calls < MaxPublish
    /\ sf_calls' = sf_calls + 1
    /\ sf_frame' = sf_calls + 1
    /\ sf_label' = label
    /\ sf_ret' = FALSE
    /\ sf_raised' = FALSE
    /\ sf_pc' = "lock"

\* lines 47-48: with camera_lock: current_frame = frame
set_frame_lock ==
    /\ sf_pc = "lock"
    /\ camera_lock = "free"
    /\ camera_lock' = "set_frame"
    /\ current_frame' = sf_frame
    /\ sf_pc' = "label"
    /\ UNCHANGED <<encoded_jpeg, current_label, live_preview_enabled,
                   last_frame_time, live_file, label_call, time_call>>
    /\ UNCHANGED <<sf_frame, sf_label, sf_ret, sf_raised, sf_calls>>

\* line 49
set_frame_label ==
    /\ sf_pc = "label"
    /\ current_label' = sf_label
    /\ label_call' = sf_calls
    /\ sf_pc' = "encode"
    /\ UNCHANGED <<camera_lock, current_frame, encoded_jpeg,
                   live_preview_enabled, last_frame_time, live_file, time_call>>
    /\ UNCHANGED <<sf_frame, sf_label, sf_ret, sf_raised, sf_calls>>

\* (mutant) the bytes of the frame the previous call published
encoded_of_previous_call == imencode(sf_frame - 1)

\* The bytes line 52 stores.
encoded_of_call == imencode(sf_frame)

\* lines 50-52: imencode answers ret = True, ret = False, or raises (the
\* with statement then releases the lock and the caller sees the exception).
set_frame_encode ==
    /\ sf_pc = "encode"
    /\ \E outcome \in {"ok", "failed", "raised"} :
        /\ sf_ret' = (outcome = "ok")
        /\ sf_raised' = (outcome = "raised")
        /\ encoded_jpeg' = IF outcome = "ok" THEN encoded_of_call ELSE encoded_jpeg
        /\ sf_pc' = IF outcome = "ok" THEN "time" ELSE "exit"
    /\ UNCHANGED <<camera_lock, current_frame, current_label,
                   live_preview_enabled, last_frame_time, live_file,
                   label_call, time_call>>
    /\ UNCHANGED <<sf_frame, sf_label, sf_calls>>

\* line 53
set_frame_time ==
    /\ sf_pc = "time"
    /\ last_frame_time' = now
    /\ time_call' = sf_calls
    /\ sf_pc' = "exit"
    /\ UNCHANGED <<camera_lock, current_frame, encoded_jpeg, current_label,
                   live_preview_enabled, live_file, label_call>>
    /\ UNCHANGED <<sf_frame, sf_label, sf_ret, sf_raised, sf_calls>>

\* line 54 when ret (cv2.imwrite(LIVE_PATH, frame): a failed write leaves
\* the file as it was), and leaving the with block
set_frame_exit ==
    /\ sf_pc = "exit"
    /\ \E written \in BOOLEAN :
        live_file' = IF sf_ret /\ written THEN sf_frame ELSE live_file
    /\ camera_lock' = "free"
    /\ sf_pc' = "idle"
    /\ UNCHANGED <<current_frame, encoded_jpeg, current_label,
                   live_preview_enabled, last_frame_time, label_call, time_call>>
    /\ UNCHANGED <<sf_frame, sf_label, sf_ret, sf_raised, sf_calls>>

\* ------------------------------------------------------------------------
\* web_server.py: generate_stream, one generator per /live request
\* ------------------------------------------------------------------------
\* frame_interval = 1 / stream_fps, in ticks
frame_interval == TicksPerSecond \div stream_fps

gs_unchanged_locals(s) ==
    /\ UNCHANGED <<gs_now, gs_last_sent_time, gs_frame, gs_out>>

\* /live: a new generator, lines 60-61 (last_sent_time = 0)
live_feed(s) ==
    /\ gs_pc[s] = "closed"
    /\ gs_pc' = [gs_pc EXCEPT ![s] = "check"]
    /\ gs_last_sent_time' = [gs_last_sent_time EXCEPT ![s] = 0]
    /\ gs_out' = [gs_out EXCEPT ![s] = <<>>]
    /\ UNCHANGED <<gs_now, gs_frame, gs_wake>>
    /\ UNCHANGED <<now, brokerVars, sfVars, tgVars, stVars, enVars, fsVars>>

\* lines 64-66
generate_stream_check(s) ==
    /\ gs_pc[s] = "check"
    /\ IF live_preview_enabled
       THEN /\ gs_pc' = [gs_pc EXCEPT ![s] = "now"]
            /\ UNCHANGED gs_wake
       ELSE /\ gs_pc' = [gs_pc EXCEPT ![s] = "sleep"]
            /\ gs_wake' = [gs_wake EXCEPT ![s] = now + SleepTicks(200)]
    /\ gs_unchanged_locals(s)
    /\ UNCHANGED <<now, brokerVars, sfVars, tgVars, stVars, enVars, fsVars>>

\* time.sleep returning
generate_stream_wake(s) ==
    /\ gs_pc[s] = "sleep"
    /\ now >= gs_wake[s]
    /\ gs_pc' = [gs_pc EXCEPT ![s] = "check"]
    /\ UNCHANGED gs_wake
    /\ gs_unchanged_locals(s)
    /\ UNCHANGED <<now, brokerVars, sfVars, tgVars, stVars, enVars, fsVars>>

\* line 69: is the next frame due?
frame_due(t, last_sent) == ~(t - last_sent < frame_interval)

\* lines 68-71
generate_stream_now(s) ==
    /\ gs_pc[s] = "now"
    /\ gs_now' = [gs_now EXCEPT ![s] = now]
    /\ IF frame_due(now, gs_last_sent_time[s])
       THEN /\ gs_pc' = [gs_pc EXCEPT ![s] = "lock"]
            /\ UNCHANGED gs_wake
       ELSE /\ gs_pc' = [gs_pc EXCEPT ![s] = "sleep"]
            /\ gs_wake' = [gs_wake EXCEPT ![s] = now + SleepTicks(10)]
    /\ UNCHANGED <<gs_last_sent_time, gs_frame, gs_out>>
    /\ UNCHANGED <<now, brokerVars, sfVars, tgVars, stVars, enVars, fsVars>>

\* line 73
generate_stream_lock(s) ==
    /\ gs_pc[s] = "lock"
    /\ camera_lock = "free"
    /\ camera_lock' = s
    /\ gs_pc' = [gs_pc EXCEPT ![s] = "read"]
    /\ UNCHANGED gs_wake
    /\ gs_unchanged_locals(s)
    /\ UNCHANGED <<current_frame, encoded_jpeg, current_label,
                   live_preview_enabled, last_frame_time, live_file,
                   label_call, time_call>>
    /\ UNCHANGED <<now, sfVars, tgVars, stVars, enVars, fsVars>>

\* The value line 74 binds to frame.
snapshot == encoded_jpeg

generate_stream_read_holding(s) ==
    /\ gs_pc[s] = "read"
    /\ gs_frame' = [gs_frame EXCEPT ![s] = snapshot]
    /\ gs_pc' = [gs_pc EXCEPT ![s] = "yield"]
    /\ UNCHANGED <<gs_now, gs_last_sent_time, gs_wake, gs_out>>
    /\ UNCHANGED brokerVars
    /\ UNCHANGED <<now, sfVars, tgVars, stVars, enVars, fsVars>>

\* line 74, and leaving the with block
generate_stream_read(s) ==
    /\ gs_pc[s] = "read"
    /\ gs_frame' = [gs_frame EXCEPT ![s] = snapshot]
    /\ camera_lock' = "free"
    /\ gs_pc' = [gs_pc EXCEPT ![s] = "yield"]
    /\ UNCHANGED <<gs_now, gs_last_sent_time, gs_wake, gs_out>>
    /\ UNCHANGED <<current_frame, encoded_jpeg, current_label,
                   live_preview_enabled, last_frame_time, live_file,
                   label_call, time_call>>
    /\ UNCHANGED <<now, sfVars, tgVars, stVars, enVars, fsVars>>

\* The connection's output: the chunks handed to the client and when; the
\* two latest are kept.
emit(out, chunk) ==
    IF Len(out) < 2 THEN Append(out, chunk) ELSE <<out[2], chunk>>

\* lines 76-77 and 79-80: the frame is handed to the client at the yield.
generate_stream_yield(s) ==
    /\ gs_pc[s] = "yield"
    /\ IF gs_frame[s] # NoBytes
       THEN /\ gs_out' = [gs_out EXCEPT
                   ![s] = emit(@, [time |-> now, jpeg |-> gs_frame[s]])]
            /\ gs_pc' = [gs_pc EXCEPT ![s] = "suspended"]
            /\ UNCHANGED gs_wake
       ELSE /\ gs_pc' = [gs_pc EXCEPT ![s] = "sleep"]
            /\ gs_wake' = [gs_wake EXCEPT ![s] = now + SleepTicks(50)]
            /\ UNCHANGED gs_out
    /\ UNCHANGED <<gs_now, gs_last_sent_time, gs_frame>>
    /\ UNCHANGED <<now, brokerVars, sfVars, tgVars, stVars, enVars, fsVars>>

\* The value line 78 stores in last_sent_time.
sent_time(s) == gs_now[s]

\* line 78: the client asked for the next chunk
generate_stream_sent(s) ==
    /\ gs_pc[s] = "suspended"
    /\ gs_last_sent_time' = [gs_last_sent_time EXCEPT ![s] = sent_time(s)]
    /\ gs_pc' = [gs_pc EXCEPT ![s] = "check"]
    /\ UNCHANGED <<gs_now, gs_frame, gs_wake, gs_out>>
    /\ UNCHANGED <<now, brokerVars, sfVars, tgVars, stVars, enVars, fsVars>>

\* The peer disconnected: the generator is closed at its yield.
generate_stream_close(s) ==
    /\ gs_pc[s] = "suspended"
    /\ gs_pc' = [gs_pc EXCEPT ![s] = "closed"]
    /\ UNCHANGED <<gs_now, gs_last_sent_time, gs_frame, gs_wake, gs_out>>
    /\ UNCHANGED <<now, brokerVars, sfVars, tgVars, stVars, enVars, fsVars>>

\* ------------------------------------------------------------------------
\* web_server.py: toggle_preview
\* ------------------------------------------------------------------------
\* line 137 and the argument of line 138: bool(data.get("enable", False))
toggle_preview_call(t) ==
    /\ tg_pc[t] = "idle"
    /\ \E enable \in BOOLEAN : tg_enable' = [tg_enable EXCEPT ![t] = enable]
    /\ tg_pc' = [tg_pc EXCEPT ![t] = "write"]
    /\ UNCHANGED tg_ret
    /\ UNCHANGED <<now, brokerVars, sfVars, gsVars, stVars, enVars, fsVars>>

\* lines 138-140
toggle_preview_write(t) ==
    /\ tg_pc[t] = "write"
    /\ live_preview_enabled' = tg_enable[t]
    /\ tg_pc' = [tg_pc EXCEPT ![t] = "return"]
    /\ UNCHANGED <<tg_enable, tg_ret>>
    /\ UNCHANGED <<camera_lock, current_frame, encoded_jpeg, current_label,
                   last_frame_time, live_file, label_call, time_call>>
    /\ UNCHANGED <<now, sfVars, gsVars, stVars, enVars, fsVars>>

\* The live_preview value of the response, line 141.
toggle_response(t) == live_preview_enabled

\* line 141
toggle_preview_return(t) ==
    /\ tg_pc[t] = "return"
    /\ tg_ret' = [tg_ret EXCEPT ![t] = toggle_response(t)]
    /\ tg_pc' = [tg_pc EXCEPT ![t] = "idle"]
    /\ UNCHANGED tg_enable
    /\ UNCHANGED <<now, brokerVars, sfVars, gsVars, stVars, enVars, fsVars>>

\* ------------------------------------------------------------------------
\* web_server.py: status
\* ------------------------------------------------------------------------
status_call ==
    /\ st_pc = "idle"
    /\ st_pc' = "label"
    /\ UNCHANGED <<st_label, st_preview, st_time, st_label_call, st_time_call>>
    /\ UNCHANGED <<now, brokerVars, sfVars, gsVars, tgVars, enVars, fsVars>>

\* line 148
status_label ==
    /\ st_pc = "label"
    /\ st_label' = current_label
    /\ st_label_call' = label_call
    /\ st_pc' = "preview"
    /\ UNCHANGED <<st_preview, st_time, st_time_call>>
    /\ UNCHANGED <<now, brokerVars, sfVars, gsVars, tgVars, enVars, fsVars>>

\* line 149
status_preview ==
    /\ st_pc = "preview"
    /\ st_preview' = live_preview_enabled
    /\ st_pc' = "time"
    /\ UNCHANGED <<st_label, st_time, st_label_call, st_time_call>>
    /\ UNCHANGED <<now, brokerVars, sfVars, gsVars, tgVars, enVars, fsVars>>

\* line 150, and the response
status_time ==
    /\ st_pc = "time"
    /\ st_time' = last_frame_time
    /\ st_time_call' = time_call
    /\ st_pc' = "idle"
    /\ UNCHANGED <<st_label, st_preview, st_label_call>>
    /\ UNCHANGED <<now, brokerVars, sfVars, gsVars, tgVars, enVars, fsVars>>

\* ------------------------------------------------------------------------
\* web_server.py: enroll_face
\* ------------------------------------------------------------------------
FormNames == {"", "alice"}

\* (mutant) the name is never found missing
missing_name_never(name) == FALSE

\* line 109: not name (a missing field and an empty one alike)
missing_name(name) == name = ""

\* line 122: name + strftime('%Y%m%d%H%M%S') + ".jpg"
enroll_filename(name, t) == <<name, Second(t), ".jpg">>

\* line 108
enroll_face_call(e) ==
    /\ en_pc[e] = "idle"
    /\ \E name \in FormNames : en_name' = [en_name EXCEPT ![e] = name]
    /\ en_pc' = [en_pc EXCEPT ![e] = "name"]
    /\ en_frame' = [en_frame EXCEPT ![e] = NoFrame]
    /\ en_filename' = [en_filename EXCEPT ![e] = NoFile]
    /\ en_result' = [en_result EXCEPT ![e] = ""]
    /\ UNCHANGED <<now, brokerVars, sfVars, gsVars, tgVars, stVars, fsVars>>

\* lines 109-110
enroll_face_name(e) ==
    /\ en_pc[e] = "name"
    /\ IF missing_name(en_name[e])
       THEN /\ en_result' = [en_result EXCEPT ![e] = "Missing name"]
            /\ en_pc' = [en_pc EXCEPT ![e] = "idle"]
       ELSE /\ en_pc' = [en_pc EXCEPT ![e] = "mkdir"]
            /\ UNCHANGED en_result
    /\ UNCHANGED <<en_name, en_frame, en_filename>>
    /\ UNCHANGED <<now, brokerVars, sfVars, gsVars, tgVars, stVars, fsVars>>

\* line 112
enroll_face_mkdir(e) ==
    /\ en_pc[e] = "mkdir"
    /\ faces_dir' = TRUE
    /\ en_pc' = [en_pc EXCEPT ![e] = "lock"]
    /\ UNCHANGED faces_files
    /\ UNCHANGED <<en_name, en_frame, en_filename, en_result>>
    /\ UNCHANGED <<now, brokerVars, sfVars, gsVars, tgVars, stVars>>

\* line 113
enroll_face_lock(e) ==
    /\ en_pc[e] = "lock"
    /\ camera_lock = "free"
    /\ camera_lock' = e
    /\ en_pc' = [en_pc EXCEPT ![e] = "copy"]
    /\ UNCHANGED <<current_frame, encoded_jpeg, current_label,
                   live_preview_enabled, last_frame_time, live_file,
                   label_call, time_call>>
    /\ UNCHANGED <<en_name, en_frame, en_filename, en_result>>
    /\ UNCHANGED <<now, sfVars, gsVars, tgVars, stVars, fsVars>>

\* line 114, and leaving the with block
enroll_face_copy(e) ==
    /\ en_pc[e] = "copy"
    /\ en_frame' = [en_frame EXCEPT ![e] = current_frame]
    /\ camera_lock' = "free"
    /\ en_pc' = [en_pc EXCEPT ![e] = "fallback"]
    /\ UNCHANGED <<current_frame, encoded_jpeg, current_label,
                   live_preview_enabled, last_frame_time, live_file,
                   label_call, time_call>>
    /\ UNCHANGED <<en_name, en_filename, en_result>>
    /\ UNCHANGED <<now, sfVars, gsVars, tgVars, stVars, fsVars>>

\* lines 116-120: cv2.imread answers None for a file it cannot decode.
\* A return ends the request and its locals.
enroll_face_fallback(e) ==
    /\ en_pc[e] = "fallback"
    /\ \E readable \in BOOLEAN :
        LET frame_to_save ==
                IF en_frame[e] = NoFrame /\ live_file # NoFrame /\ readable
                THEN live_file ELSE en_frame[e]
        IN  IF frame_to_save = NoFrame
            THEN /\ en_result' = [en_result EXCEPT
                                     ![e] = "No live frame available"]
                 /\ en_pc' = [en_pc EXCEPT ![e] = "idle"]
                 /\ en_name' = [en_name EXCEPT ![e] = ""]
                 /\ UNCHANGED en_frame
            ELSE /\ en_frame' = [en_frame EXCEPT ![e] = frame_to_save]
                 /\ en_pc' = [en_pc EXCEPT ![e] = "write"]
                 /\ UNCHANGED <<en_result, en_name>>
    /\ UNCHANGED en_filename
    /\ UNCHANGED <<now, brokerVars, sfVars, gsVars, tgVars, stVars, fsVars>>

\* cv2.imwrite(path, img) creates the file or replaces the one of that name.
write_file(files, path, img) == (path :> img) @@ files

\* lines 122-130: the filename, the write and the response
enroll_face_write(e) ==
    /\ en_pc[e] = "write"
    /\ LET filename == enroll_filename(en_name[e], now)
       IN  /\ en_filename' = [en_filename EXCEPT ![e] = filename]
           /\ \E success \in BOOLEAN :
                IF success
                THEN /\ faces_files' = write_file(faces_files, filename, en_frame[e])
                     /\ en_result' = [en_result EXCEPT ![e] = "success"]
                ELSE /\ UNCHANGED faces_files
                     /\ en_result' = [en_result EXCEPT ![e] = "cv2.imwrite failed"]
    /\ en_pc' = [en_pc EXCEPT ![e] = "idle"]
    /\ en_name' = [en_name EXCEPT ![e] = ""]
    /\ en_frame' = [en_frame EXCEPT ![e] = NoFrame]
    /\ UNCHANGED faces_dir
    /\ UNCHANGED <<now, brokerVars, sfVars, gsVars, tgVars, stVars>>

\* ------------------------------------------------------------------------
\* pi_patrol.py: PiPatrol
\* ------------------------------------------------------------------------
Clips == 1..MaxPublish

\* PiPatrol(): lines 163-169, but for the camera.
InitPatrol ==
    /\ last_motion_time = 0
    /\ recorders = {}
    /\ run_pc = "poll"
    /\ motion = FALSE
    /\ pir = "none"
    /\ frame = NoFrame
    /\ person = Unknown
    /\ img_path = NoFile
    /\ run_wake = 0
    /\ drawn = <<>>
    /\ events = <<>>
    /\ event_files = <<>>
    /\ clips_started = 0
    /\ rc_pc = [c \in Clips |-> "unborn"]
    /\ rc_path = [c \in Clips |-> NoFile]
    /\ rc_wake = [c \in Clips |-> 0]

check_pir_motion_fail_open(reading) == reading # "low"

\* lines 243-249: HIGH is motion; LOW and a read error are not.
check_pir_motion(reading) == reading = "high"

idle_expired_inclusive(t, lmt) == t - lmt >= IDLE_TIMEOUT * TicksPerSecond

\* line 307: time.time() - self.last_motion_time > IDLE_TIMEOUT
idle_expired(t, lmt) == t - lmt > IDLE_TIMEOUT * TicksPerSecond

event_row_reusing_id(evs, event_type, file_path, person_name) ==
    [id |-> IF Len(evs) = 0 THEN 1 ELSE Len(evs), timestamp |-> Second(now),
     event_type |-> event_type, file_path |-> file_path,
     person_name |-> person_name]

\* lines 251-261: the row an INSERT adds; the id is the store's next one.
event_row(evs, event_type, file_path, person_name) ==
    [id |-> Len(evs) + 1, timestamp |-> Second(now), event_type |-> event_type,
     file_path |-> file_path, person_name |-> person_name]

\* The names of the detections on one frame, in order.
detected_names(ps) == [i \in 1..Len(ps) |-> recognize_faces(ps)[i].name]

FaceRegions ==
    UNION { [1..n -> PredictOutcomes(model_labels)] : n \in 0..1 }

\* line 310 is reached: time.sleep(0.3) begins
to_poll_sleep ==
    /\ run_pc' = "sleep"
    /\ run_wake' = now + SleepTicks(300)

\* lines 285-288, 305
run_poll ==
    /\ run_pc = "poll"
    /\ \E reading \in {"high", "low", "error"} :
        /\ pir' = reading
        /\ motion' = check_pir_motion(reading)
        /\ IF check_pir_motion(reading)
           THEN /\ last_motion_time' = now
                /\ run_pc' = "wake"
           ELSE /\ UNCHANGED last_motion_time
                /\ run_pc' = "idle_check"
    /\ UNCHANGED <<camera, recorders, frame, person, img_path, run_wake, drawn>>
    /\ UNCHANGED <<storeVars, clipVars>>
    /\ UNCHANGED <<now, brokerVars, sfVars>>

\* lines 183-196: the device opened and started, or self.camera = None
initialize_camera(initialized) == IF initialized THEN "open" ELSE None

\* lines 209-213
wake_camera(cam, initialized) ==
    IF cam = None THEN initialize_camera(initialized) ELSE cam

stop_camera_unless_raised(cam, raised) ==
    IF cam # None /\ ~raised THEN None ELSE cam

\* lines 198-207: line 207 runs whether or not stop() or close() raised
stop_camera(cam, raised) == IF cam # None THEN None ELSE cam

\* lines 289-290
run_wake_camera ==
    /\ run_pc = "wake"
    /\ \E initialized \in BOOLEAN : camera' = wake_camera(camera, initialized)
    /\ run_pc' = "capture"
    /\ UNCHANGED <<last_motion_time, recorders>>
    /\ UNCHANGED <<motion, frame, person, img_path, run_wake, drawn>>
    /\ UNCHANGED <<storeVars, clipVars>>
    /\ UNCHANGED <<now, brokerVars, sfVars>>
    /\ pir' = "none"

\* line 292, capture_frame lines 217-234: up to the call of set_frame
run_capture ==
    /\ run_pc = "capture"
    /\ \/ /\ camera = None
          /\ frame' = NoFrame
          /\ to_poll_sleep
          /\ UNCHANGED <<drawn, brokerVars, sfVars>>
       \/ /\ camera # None
          /\ frame' = NoFrame
          /\ to_poll_sleep
          /\ UNCHANGED <<drawn, brokerVars, sfVars>>
       \/ /\ camera # None
          /\ \E ps \in FaceRegions : drawn' = detected_names(ps)
          /\ \E written \in BOOLEAN :
                live_file' = IF written THEN sf_calls + 1 ELSE live_file
          /\ set_frame_call(Unknown)
          /\ run_pc' = "set_frame"
          /\ UNCHANGED <<frame, run_wake>>
          /\ UNCHANGED <<camera_lock, current_frame, encoded_jpeg, current_label,
                         live_preview_enabled, last_frame_time, label_call,
                         time_call>>
    /\ UNCHANGED <<patrolVars, motion, person, img_path>>
    /\ UNCHANGED <<storeVars, clipVars>>
    /\ UNCHANGED now
    /\ UNCHANGED pir

capture_result_despite_raise(raised, f) == f

\* lines 235, 237-239: the frame, or None when the try block raised
capture_result(raised, f) == IF raised THEN NoFrame ELSE f

\* lines 235, 237-239, 292-293: set_frame returned or raised
run_captured ==
    /\ run_pc = "set_frame"
    /\ sf_pc = "idle"
    /\ frame' = capture_result(sf_raised, sf_frame)
    /\ IF capture_result(sf_raised, sf_frame) = NoFrame
       THEN to_poll_sleep
       ELSE /\ run_pc' = "detect"
            /\ UNCHANGED run_wake
    /\ UNCHANGED <<patrolVars, motion, person, img_path, drawn>>
    /\ UNCHANGED <<storeVars, clipVars>>
    /\ UNCHANGED <<now, brokerVars, sfVars>>
    /\ UNCHANGED pir

\* lines 294-295: recognize_faces outside any try; an exception of
\* cvtColor or detectMultiScale leaves run.
run_detect ==
    /\ run_pc = "detect"
    /\ \/ /\ run_pc' = "exited"
          /\ UNCHANGED person
       \/ /\ \E ps \in FaceRegions :
                person' = IF Len(ps) > 0 THEN detected_names(ps)[1] ELSE Unknown
          /\ run_pc' = "snapshot"
    /\ UNCHANGED <<patrolVars, motion, frame, img_path, run_wake, drawn>>
    /\ UNCHANGED <<storeVars, clipVars>>
    /\ UNCHANGED <<now, brokerVars, sfVars>>
    /\ UNCHANGED pir

\* line 297: EVENTS_DIR / f"{person}_{int(time.time())}.jpg"
event_image_path(name, t) == <<name, Second(t), ".jpg">>

\* lines 297-298
run_snapshot ==
    /\ run_pc = "snapshot"
    /\ img_path' = event_image_path(person, now)
    /\ \E written \in BOOLEAN :
        event_files' = IF written
                       THEN write_file(event_files, event_image_path(person, now), frame)
                       ELSE event_files
    /\ run_pc' = "log"
    /\ UNCHANGED events
    /\ UNCHANGED <<patrolVars, motion, frame, person, run_wake, drawn>>
    /\ UNCHANGED clipVars
    /\ UNCHANGED <<now, brokerVars, sfVars>>
    /\ UNCHANGED pir

\* line 299, log_event: the INSERT, or the exception it swallows
run_log ==
    /\ run_pc = "log"
    /\ \E inserted \in BOOLEAN :
        events' = IF inserted
                  THEN Append(events,
                              event_row(events, "motion_detected", img_path, person))
                  ELSE events
    /\ run_pc' = "spawn"
    /\ UNCHANGED event_files
    /\ UNCHANGED <<patrolVars, motion, frame, person, img_path, run_wake, drawn>>
    /\ UNCHANGED clipVars
    /\ UNCHANGED <<now, brokerVars, sfVars>>
    /\ UNCHANGED pir

\* lines 301-303: Thread(...).start() starts the task or raises
\* RuntimeError; then time.sleep(VIDEO_DURATION + 1) begins.
run_spawn ==
    /\ run_pc = "spawn"
    /\ \/ /\ run_pc' = "exited"
          /\ UNCHANGED <<run_wake, clipVars>>
       \/ /\ clips_started < MaxPublish
          /\ clips_started' = clips_started + 1
          /\ rc_pc' = [rc_pc EXCEPT ![clips_started + 1] = "check"]
          /\ rc_path' = [rc_path EXCEPT
                            ![clips_started + 1] = <<"record", Second(now), ".mp4">>]
          /\ UNCHANGED rc_wake
          /\ run_pc' = "cooldown"
          /\ run_wake' = now + SleepTicks(1000 * (VIDEO_DURATION + 1))
    /\ UNCHANGED <<patrolVars, motion, frame, person, img_path, drawn>>
    /\ UNCHANGED storeVars
    /\ UNCHANGED <<now, brokerVars, sfVars>>
    /\ UNCHANGED pir

\* line 303 returns: the tick is over, and its locals with it
run_cooldown ==
    /\ run_pc = "cooldown"
    /\ now >= run_wake
    /\ to_poll_sleep
    /\ frame' = NoFrame
    /\ person' = Unknown
    /\ img_path' = NoFile
    /\ drawn' = <<>>
    /\ UNCHANGED <<patrolVars, motion>>
    /\ UNCHANGED <<storeVars, clipVars>>
    /\ UNCHANGED <<now, brokerVars, sfVars>>
    /\ UNCHANGED pir

\* lines 307-308: stop_camera on an open camera that has been idle; the
\* device that is given up records for nobody.
run_idle_check ==
    /\ run_pc = "idle_check"
    /\ IF camera # None /\ idle_expired(now, last_motion_time)
       THEN /\ \E raised \in BOOLEAN : camera' = stop_camera(camera, raised)
            /\ recorders' = {}
       ELSE UNCHANGED <<camera, recorders>>
    /\ to_poll_sleep
    /\ UNCHANGED last_motion_time
    /\ UNCHANGED <<motion, frame, person, img_path, drawn>>
    /\ UNCHANGED <<storeVars, clipVars>>
    /\ UNCHANGED <<now, brokerVars, sfVars>>
    /\ pir' = "none"

\* line 310 returns
run_sleep ==
    /\ run_pc = "sleep"
    /\ now >= run_wake
    /\ run_pc' = "poll"
    /\ UNCHANGED <<patrolVars, motion, frame, person, img_path, run_wake, drawn>>
    /\ UNCHANGED <<storeVars, clipVars>>
    /\ UNCHANGED <<now, brokerVars, sfVars>>
    /\ UNCHANGED pir

\* ------------------------------------------------------------------------
\* pi_patrol.py: record_clip, one thread per clip
\* ------------------------------------------------------------------------
rc_unchanged_run == UNCHANGED <<runVars, now, brokerVars, sfVars>>

record_clip_check_waking(c) ==
    /\ rc_pc[c] = "check"
    /\ camera' = "open"
    /\ rc_pc' = [rc_pc EXCEPT ![c] = "start"]
    /\ UNCHANGED <<clips_started, rc_path, rc_wake>>
    /\ UNCHANGED <<last_motion_time, recorders, storeVars>>
    /\ rc_unchanged_run

\* lines 265-268
record_clip_check(c) ==
    /\ rc_pc[c] = "check"
    /\ rc_pc' = [rc_pc EXCEPT ![c] = IF camera = None THEN "done" ELSE "start"]
    /\ UNCHANGED <<clips_started, rc_path, rc_wake>>
    /\ UNCHANGED <<patrolVars, storeVars>>
    /\ rc_unchanged_run

\* lines 270-272: start_recording on the camera as it is now (unset: an
\* AttributeError, caught at line 275), then time.sleep(VIDEO_DURATION)
record_clip_start(c) ==
    /\ rc_pc[c] = "start"
    /\ \/ /\ rc_pc' = [rc_pc EXCEPT ![c] = "done"]
          /\ UNCHANGED <<recorders, rc_wake>>
       \/ /\ camera # None
          /\ recorders' = recorders \cup {c}
          /\ rc_pc' = [rc_pc EXCEPT ![c] = "sleep"]
          /\ rc_wake' = [rc_wake EXCEPT ![c] = now + SleepTicks(1000 * VIDEO_DURATION)]
    /\ UNCHANGED <<clips_started, rc_path>>
    /\ UNCHANGED <<camera, last_motion_time, storeVars>>
    /\ rc_unchanged_run

after_stop_recording_log_anyway(raised) == "log"

\* lines 273-276: line 274 is reached only if stop_recording returned
after_stop_recording(raised) == IF raised THEN "done" ELSE "log"

\* line 272 returns; line 273: stop_recording on the camera as it is now
\* (unset: an AttributeError), or the exception caught at 275
record_clip_stop(c) ==
    /\ rc_pc[c] = "sleep"
    /\ now >= rc_wake[c]
    /\ \E raised \in { r \in BOOLEAN : camera = None => r } :
        /\ recorders' = IF raised THEN recorders ELSE recorders \ {c}
        /\ rc_pc' = [rc_pc EXCEPT ![c] = after_stop_recording(raised)]
    /\ rc_wake' = [rc_wake EXCEPT ![c] = 0]
    /\ UNCHANGED <<clips_started, rc_path>>
    /\ UNCHANGED <<camera, last_motion_time, storeVars>>
    /\ rc_unchanged_run

\* line 274, log_event
record_clip_log(c) ==
    /\ rc_pc[c] = "log"
    /\ \E inserted \in BOOLEAN :
        events' = IF inserted
                  THEN Append(events,
                              event_row(events, "motion_recorded", rc_path[c], None))
                  ELSE events
    /\ rc_pc' = [rc_pc EXCEPT ![c] = "done"]
    /\ UNCHANGED event_files
    /\ UNCHANGED <<clips_started, rc_path, rc_wake>>
    /\ UNCHANGED patrolVars
    /\ rc_unchanged_run

\* ------------------------------------------------------------------------
\* The motion loop with its clip threads
\* ------------------------------------------------------------------------
LoopStep == VIDEO_DURATION * TicksPerSecond

\* Time passes while run is in one of its sleeps (or has left): the
\* statements between two sleeps take no time of their own.  The clip
\* threads run at any pace.
run_blocked == run_pc \in {"sleep", "cooldown", "exited"}

Tick ==
    /\ run_blocked
    /\ now + LoopStep <= StartTime + LoopHorizon * LoopStep
    /\ now' = now + LoopStep
    /\ UNCHANGED <<brokerVars, sfVars, loopVars>>

\* The faces directory the loop starts with: one enrolled person, trained
\* at construction.
LoopListing == <<Entry("alice", TRUE, 1)>>

\* After PiPatrol(): initialize_camera left the device open, or unset when
\* it failed; the recognizer found or made the faces directory.
Init ==
    /\ InitWeb
    /\ InitPatrol
    /\ camera \in {"open", None}
    /\ faces_dir = TRUE
    /\ listing = LoopListing
    /\ labels = constructed_labels(listing)
    /\ model_labels = trained_ids(listing)
    /\ results = <<>>

loopOnly == UNCHANGED <<recogVars, gsVars, tgVars, stVars, enVars, fsVars>>

webOnly_reloading ==
    /\ labels' = load_labels(<<Entry("dave20240101120000.jpg", FALSE, 0)>> \o listing)
    /\ UNCHANGED <<listing, model_labels, results, loopVars>>

\* web_server.py holds no reference to the recognizer or to PiPatrol.
webOnly == UNCHANGED <<recogVars, loopVars>>
sfOnly == UNCHANGED <<now, gsVars, tgVars, stVars, enVars, fsVars, recogVars,
                      loopVars>>

Next ==
    \/ (run_poll /\ loopOnly)
    \/ (run_wake_camera /\ loopOnly)
    \/ (run_capture /\ loopOnly)
    \/ (set_frame_lock /\ sfOnly)
    \/ (set_frame_label /\ sfOnly)
    \/ (set_frame_encode /\ sfOnly)
    \/ (set_frame_time /\ sfOnly)
    \/ (set_frame_exit /\ sfOnly)
    \/ (run_captured /\ loopOnly)
    \/ (run_detect /\ loopOnly)
    \/ (run_snapshot /\ loopOnly)
    \/ (run_log /\ loopOnly)
    \/ (run_spawn /\ loopOnly)
    \/ (run_cooldown /\ loopOnly)
    \/ (run_idle_check /\ loopOnly)
    \/ (run_sleep /\ loopOnly)
    \/ \E c \in Clips : (record_clip_check(c) /\ loopOnly)
    \/ \E c \in Clips : (record_clip_start(c) /\ loopOnly)
    \/ \E c \in Clips : (record_clip_stop(c) /\ loopOnly)
    \/ \E c \in Clips : (record_clip_log(c) /\ loopOnly)
    \/ (Tick /\ loopOnly)

Spec == Init /\ [][Next]_vars

\* ------------------------------------------------------------------------
\* The stream server beside a publishing motion loop
\* ------------------------------------------------------------------------
\* capture_frame, line 234: set_frame(frame), the label left at its default
capture_publishes ==
    /\ set_frame_call(Unknown)
    /\ UNCHANGED <<now, brokerVars, gsVars, tgVars, stVars, enVars, fsVars>>

TickStream ==
    /\ now < StartTime + StreamHorizon
    /\ now' = now + 1
    /\ UNCHANGED <<brokerVars, sfVars, gsVars, tgVars, stVars, enVars, fsVars>>

\* The web server alone: no camera, and the faces directory as it is found.
InitServer ==
    /\ InitWeb
    /\ InitPatrol
    /\ camera = None
    /\ listing = <<>>
    /\ labels = constructed_labels(listing)
    /\ model_labels = trained_ids(listing)
    /\ results = <<>>

InitStream ==
    /\ InitServer
    /\ faces_dir = FALSE

InitEnroll ==
    /\ InitServer
    /\ faces_dir \in BOOLEAN

NextStream ==
    \/ (capture_publishes /\ webOnly)
    \/ (set_frame_lock /\ sfOnly)
    \/ (set_frame_label /\ sfOnly)
    \/ (set_frame_encode /\ sfOnly)
    \/ (set_frame_time /\ sfOnly)
    \/ (set_frame_exit /\ sfOnly)
    \/ \E s \in Streams : (live_feed(s) /\ webOnly)
    \/ \E s \in Streams : (generate_stream_check(s) /\ webOnly)
    \/ \E s \in Streams : (generate_stream_wake(s) /\ webOnly)
    \/ \E s \in Streams : (generate_stream_now(s) /\ webOnly)
    \/ \E s \in Streams : (generate_stream_lock(s) /\ webOnly)
    \/ \E s \in Streams : (generate_stream_read(s) /\ webOnly)
    \/ \E s \in Streams : (generate_stream_yield(s) /\ webOnly)
    \/ \E s \in Streams : (generate_stream_sent(s) /\ webOnly)
    \/ \E s \in Streams : (generate_stream_close(s) /\ webOnly)
    \/ (toggle_preview_call("toggle_1") /\ webOnly)
    \/ (toggle_preview_write("toggle_1") /\ webOnly)
    \/ (toggle_preview_return("toggle_1") /\ webOnly)
    \/ (TickStream /\ webOnly)

SpecStream == InitStream /\ [][NextStream]_vars

\* ------------------------------------------------------------------------
\* Concurrent toggle_preview requests beside a status request
\* ------------------------------------------------------------------------
NextToggle ==
    \/ \E t \in Togglers : (toggle_preview_call(t) /\ webOnly)
    \/ \E t \in Togglers : (toggle_preview_write(t) /\ webOnly)
    \/ \E t \in Togglers : (toggle_preview_return(t) /\ webOnly)
    \/ (status_call /\ webOnly)
    \/ (status_label /\ webOnly)
    \/ (status_preview /\ webOnly)
    \/ (status_time /\ webOnly)

SpecToggle == InitStream /\ [][NextToggle]_vars

\* ------------------------------------------------------------------------
\* status requests, and enroll_face requests, beside a publishing motion loop
\* ------------------------------------------------------------------------
TickApi ==
    /\ now + TicksPerSecond <= StartTime + ApiHorizon * TicksPerSecond
    /\ now' = now + TicksPerSecond
    /\ UNCHANGED <<brokerVars, sfVars, gsVars, tgVars, stVars, enVars, fsVars>>

NextStatus ==
    \/ (capture_publishes /\ webOnly)
    \/ (set_frame_lock /\ sfOnly)
    \/ (set_frame_label /\ sfOnly)
    \/ (set_frame_encode /\ sfOnly)
    \/ (set_frame_time /\ sfOnly)
    \/ (set_frame_exit /\ sfOnly)
    \/ (status_call /\ webOnly)
    \/ (status_label /\ webOnly)
    \/ (status_preview /\ webOnly)
    \/ (status_time /\ webOnly)
    \/ (TickApi /\ webOnly)

SpecStatus == InitStream /\ [][NextStatus]_vars

NextEnroll ==
    \/ (capture_publishes /\ webOnly)
    \/ (set_frame_lock /\ sfOnly)
    \/ (set_frame_label /\ sfOnly)
    \/ (set_frame_encode /\ sfOnly)
    \/ (set_frame_time /\ sfOnly)
    \/ (set_frame_exit /\ sfOnly)
    \/ \E e \in Enrollers : (enroll_face_call(e) /\ webOnly)
    \/ \E e \in Enrollers : (enroll_face_name(e) /\ webOnly)
    \/ \E e \in Enrollers : (enroll_face_mkdir(e) /\ webOnly)
    \/ \E e \in Enrollers : (enroll_face_lock(e) /\ webOnly)
    \/ \E e \in Enrollers : (enroll_face_copy(e) /\ webOnly)
    \/ \E e \in Enrollers : (enroll_face_fallback(e) /\ webOnly)
    \/ \E e \in Enrollers : (enroll_face_write(e) /\ webOnly)
    \/ (TickApi /\ webOnly)

SpecEnroll == InitEnroll /\ [][NextEnroll]_vars

InitRecog ==
    /\ InitWeb
    /\ InitPatrol
    /\ camera = None
    /\ faces_dir = TRUE
    /\ listing \in Listings
    /\ labels = constructed_labels(listing)
    /\ model_labels = trained_ids(listing)
    /\ results = <<>>

RecognizeFaces ==
    \E n \in 0..MaxFaces :
        \E ps \in [1..n -> PredictOutcomes(model_labels)] :
            /\ results' = recognize_faces(ps)
            /\ UNCHANGED <<listing, labels, model_labels>>
            /\ UNCHANGED <<now, brokerVars, sfVars, gsVars, tgVars, stVars,
                           enVars, fsVars, loopVars>>

NextRecog == RecognizeFaces

SpecRecog == InitRecog /\ [][NextRecog]_vars

\* ------------------------------------------------------------------------
\* Enrolment and toggle requests and detections on a trained recognizer,
\* beside a publishing motion loop
\* ------------------------------------------------------------------------
InitCorpus ==
    /\ InitWeb
    /\ InitPatrol
    /\ camera = None
    /\ faces_dir = TRUE
    /\ listing = LoopListing
    /\ labels = constructed_labels(listing)
    /\ model_labels = trained_ids(listing)
    /\ results = <<>>

\* recognize_faces on a frame with one face region
RecognizeOneFace ==
    \E p \in PredictOutcomes(model_labels) :
        /\ results' = recognize_faces(<<p>>)
        /\ UNCHANGED <<listing, labels, model_labels>>
        /\ UNCHANGED <<now, brokerVars, sfVars, gsVars, tgVars, stVars,
                       enVars, fsVars, loopVars>>

NextCorpus ==
    \/ (capture_publishes /\ webOnly)
    \/ (set_frame_lock /\ sfOnly)
    \/ (set_frame_label /\ sfOnly)
    \/ (set_frame_encode /\ sfOnly)
    \/ (set_frame_time /\ sfOnly)
    \/ (set_frame_exit /\ sfOnly)
    \/ (enroll_face_call("enroll_1") /\ webOnly)
    \/ (enroll_face_name("enroll_1") /\ webOnly)
    \/ (enroll_face_mkdir("enroll_1") /\ webOnly)
    \/ (enroll_face_lock("enroll_1") /\ webOnly)
    \/ (enroll_face_copy("enroll_1") /\ webOnly)
    \/ (enroll_face_fallback("enroll_1") /\ webOnly)
    \/ (enroll_face_write("enroll_1") /\ webOnly)
    \/ (toggle_preview_call("toggle_1") /\ webOnly)
    \/ (toggle_preview_write("toggle_1") /\ webOnly)
    \/ (toggle_preview_return("toggle_1") /\ webOnly)
    \/ RecognizeOneFace

SpecCorpus == InitCorpus /\ [][NextCorpus]_vars

\* ------------------------------------------------------------------------
\* The users of camera_lock: a publishing motion loop, a /live connection
\* and an enrolment
\* ------------------------------------------------------------------------
\* The web server alone, no request in flight, the preview enabled or not
\* by the toggle_preview requests served so far.
InitLock ==
    /\ InitPatrol
    /\ now = StartTime
    /\ camera_lock = "free"
    /\ current_frame = NoFrame
    /\ encoded_jpeg = NoBytes
    /\ current_label = Unknown
    /\ live_preview_enabled \in BOOLEAN
    /\ last_frame_time = 0
    /\ label_call = 0
    /\ time_call = 0
    /\ sf_pc = "idle"
    /\ sf_frame = NoFrame
    /\ sf_label = Unknown
    /\ sf_ret = FALSE
    /\ sf_raised = FALSE
    /\ sf_calls = 0
    /\ live_file = NoFrame
    /\ gs_pc = [s \in Streams |-> "closed"]
    /\ gs_now = [s \in Streams |-> 0]
    /\ gs_last_sent_time = [s \in Streams |-> 0]
    /\ gs_frame = [s \in Streams |-> NoBytes]
    /\ gs_wake = [s \in Streams |-> 0]
    /\ gs_out = [s \in Streams |-> <<>>]
    /\ tg_pc = [t \in Togglers |-> "idle"]
    /\ tg_enable = [t \in Togglers |-> FALSE]
    /\ tg_ret = [t \in Togglers |-> FALSE]
    /\ st_pc = "idle"
    /\ st_label = Unknown
    /\ st_preview = FALSE
    /\ st_time = 0
    /\ st_label_call = 0
    /\ st_time_call = 0
    /\ en_pc = [e \in Enrollers |-> "idle"]
    /\ en_name = [e \in Enrollers |-> ""]
    /\ en_frame = [e \in Enrollers |-> NoFrame]
    /\ en_filename = [e \in Enrollers |-> NoFile]
    /\ en_result = [e \in Enrollers |-> ""]
    /\ faces_files = <<>>
    /\ camera = None
    /\ faces_dir = FALSE
    /\ listing = <<>>
    /\ labels = constructed_labels(listing)
    /\ model_labels = trained_ids(listing)
    /\ results = <<>>

NextLock ==
    \/ (capture_publishes /\ webOnly)
    \/ (set_frame_lock /\ sfOnly)
    \/ (set_frame_label /\ sfOnly)
    \/ (set_frame_encode /\ sfOnly)
    \/ (set_frame_time /\ sfOnly)
    \/ (set_frame_exit /\ sfOnly)
    \/ \E s \in Streams : (live_feed(s) /\ webOnly)
    \/ \E s \in Streams : (generate_stream_check(s) /\ webOnly)
    \/ \E s \in Streams : (generate_stream_wake(s) /\ webOnly)
    \/ \E s \in Streams : (generate_stream_now(s) /\ webOnly)
    \/ \E s \in Streams : (generate_stream_lock(s) /\ webOnly)
    \/ \E s \in Streams : (generate_stream_read(s) /\ webOnly)
    \/ \E s \in Streams : (generate_stream_yield(s) /\ webOnly)
    \/ \E s \in Streams : (generate_stream_sent(s) /\ webOnly)
    \/ \E s \in Streams : (generate_stream_close(s) /\ webOnly)
    \/ (enroll_face_call("enroll_1") /\ webOnly)
    \/ (enroll_face_name("enroll_1") /\ webOnly)
    \/ (enroll_face_mkdir("enroll_1") /\ webOnly)
    \/ (enroll_face_lock("enroll_1") /\ webOnly)
    \/ (enroll_face_copy("enroll_1") /\ webOnly)
    \/ (enroll_face_fallback("enroll_1") /\ webOnly)
    \/ (enroll_face_write("enroll_1") /\ webOnly)

\* A thread inside a with camera_lock block is running and goes on to leave
\* the block; a thread blocked in camera_lock.acquire() is woken by a
\* release and gets the lock at one of the releases, the lock lying free
\* for the whole time between two short holds.  Nothing is assumed of the
\* clients: a /live peer may never ask for its next chunk, and no request
\* need ever arrive.
insideLock ==
    \/ (set_frame_label /\ sfOnly)
    \/ (set_frame_encode /\ sfOnly)
    \/ (set_frame_time /\ sfOnly)
    \/ (set_frame_exit /\ sfOnly)
    \/ \E s \in Streams : (generate_stream_read(s) /\ webOnly)
    \/ (enroll_face_copy("enroll_1") /\ webOnly)

FairLock ==
    /\ SF_vars(set_frame_lock /\ sfOnly)
    /\ WF_vars(insideLock)

SpecLock == InitLock /\ [][NextLock]_vars /\ FairLock

\* ========================================================================
\* Claims
\* ========================================================================

\* C1: the camera goes from unset to open only in the wake step of a tick
\* that read motion, and from open to unset only in the idle check of a
\* tick that read no motion more than IDLE_TIMEOUT seconds after
\* last_motion_time; such an idle check always unsets an open camera, and
\* no other step of the loop, of a clip thread or of set_frame changes it.
C1_CameraTransitions ==
    [][/\ (camera = None /\ camera' # None)
            => (run_pc = "wake" /\ run_pc' = "capture" /\ motion)
       /\ (camera # None /\ camera' = None)
            => /\ run_pc = "idle_check"
               /\ ~motion
               /\ now - last_motion_time > IDLE_TIMEOUT * TicksPerSecond
       /\ (/\ run_pc = "idle_check" /\ run_pc' # "idle_check"
           /\ camera # None
           /\ now - last_motion_time > IDLE_TIMEOUT * TicksPerSecond)
            => camera' = None
       /\ (run_pc = "wake" /\ run_pc' # "wake" /\ camera # None)
            => camera' = camera]_vars

\* C1 witness: after a motion tick and a captured frame, a run of no-motion
\* ticks longer than IDLE_TIMEOUT has ended with the camera unset.
C1_Witness ==
    /\ run_pc = "sleep"
    /\ ~motion
    /\ camera = None
    /\ sf_calls > 0
    /\ last_motion_time >= StartTime
    /\ now - last_motion_time > IDLE_TIMEOUT * TicksPerSecond

\* C2: PiPatrol.run never exits: whatever fails in a tick, the loop goes on
\* to its next sensor poll.
C2_RunNeverExits == run_pc # "exited"

\* C11: a motion tick in which capture_frame returned a frame logs exactly
\* one motion_detected event; its person_name is the first name capture_frame
\* drew on the frame ("Unknown" when it drew none) and its file_path is the
\* snapshot of that frame written in the same tick.
C11_OneEventPerCapturedFrame ==
    [][/\ (run_pc = "detect" /\ run_pc' # "detect") => run_pc' = "snapshot"
       /\ (run_pc = "log" /\ run_pc' # "log")
            => /\ Len(events') = Len(events) + 1
               /\ events'[Len(events')].event_type = "motion_detected"
               /\ events'[Len(events')].person_name
                    = (IF Len(drawn) > 0 THEN drawn[1] ELSE "Unknown")
               /\ events'[Len(events')].file_path \in DOMAIN event_files
               /\ event_files[events'[Len(events')].file_path] = frame]_vars

\* C12: the ids of the event rows strictly increase in insertion order,
\* whichever thread inserted them; a change of the event store is the
\* insertion of one row after the rows that were there, which stay as they
\* were; and the new row holds the event type, the path and the person the
\* inserting call was given.
C12_EventIdsIncrease ==
    /\ [](\A i, j \in 1..Len(events) : i < j => events[i].id < events[j].id)
    /\ [][events' # events
            => /\ Len(events') = Len(events) + 1
               /\ SubSeq(events', 1, Len(events)) = events
               /\ \/ /\ run_pc = "log"
                     /\ run_pc' = "spawn"
                     /\ events'[Len(events')].event_type = "motion_detected"
                     /\ events'[Len(events')].file_path = img_path
                     /\ events'[Len(events')].person_name = person
                  \/ \E c \in Clips :
                        /\ rc_pc[c] = "log"
                        /\ rc_pc'[c] = "done"
                        /\ events'[Len(events')].event_type = "motion_recorded"
                        /\ events'[Len(events')].file_path = rc_path[c]
                        /\ events'[Len(events')].person_name = "None"]_vars

\* C12 witness: the store holds a row inserted by a clip thread and, after
\* it, a row inserted by the motion loop.
C12_Witness ==
    \E i, j \in 1..Len(events) :
        /\ i < j
        /\ events[i].event_type = "motion_recorded"
        /\ events[j].event_type = "motion_detected"

\* C13: wake_camera leaves an open camera as it is; stop_camera leaves an
\* unset camera unset and unsets an open one whether or not stopping raised;
\* a motion tick always goes through wake_camera, and when the camera is
\* still unset after it, capture_frame returns no frame, publishes nothing
\* and the tick ends without an event or a clip.
C13_WakeAndStop ==
    /\ [](\A flag \in BOOLEAN :
            /\ camera # "None" => wake_camera(camera, flag) = camera
            /\ wake_camera(wake_camera(camera, TRUE), flag) = wake_camera(camera, TRUE)
            /\ stop_camera("None", flag) = "None"
            /\ stop_camera(camera, flag) = "None")
    /\ [][/\ (run_pc = "poll" /\ run_pc' # "poll" /\ motion') => run_pc' = "wake"
          /\ (run_pc = "wake" /\ run_pc' # "wake" /\ camera # "None")
               => camera' = camera
          /\ (run_pc = "wake" /\ run_pc' # "wake" /\ camera = "None")
               => camera' \in {"None", "open"}
          /\ (run_pc = "idle_check" /\ run_pc' # "idle_check")
               => (camera' = camera \/ camera' = "None")
          /\ (run_pc = "capture" /\ run_pc' # "capture" /\ camera = "None")
               => /\ frame' = 0
                  /\ run_pc' = "sleep"
                  /\ UNCHANGED <<camera, events, event_files, clips_started,
                                 sf_calls, sf_pc, current_frame>>]_vars

\* C13 witness: a motion tick whose wake failed has ended without a frame,
\* and the camera is unset.
C13_Witness ==
    /\ run_pc = "sleep"
    /\ motion
    /\ last_motion_time = now
    /\ camera = "None"
    /\ frame = 0
    /\ sf_calls = 0

\* C14 (as stated): capture_frame never ends run; when the capture, the
\* detection or the preview fails - set_frame raising, or its encoding
\* reporting failure - capture_frame returns no frame and the tick ends
\* without an event and without a clip.
C14_NoFrameOnAnyFailure ==
    [][/\ (run_pc \in {"capture", "set_frame"} /\ run_pc' # run_pc)
            => /\ run_pc' \in {"set_frame", "detect", "sleep"}
               /\ run_pc' = "sleep"
                    => /\ frame' = 0
                       /\ UNCHANGED <<events, event_files, clips_started, rc_pc>>
       /\ (run_pc = "set_frame" /\ run_pc' # "set_frame" /\ (sf_raised \/ ~sf_ret))
            => (frame' = 0 /\ run_pc' = "sleep")]_vars

\* C14 (amended): capture_frame never ends run; when the capture, the
\* detection or the preview raises, capture_frame returns no frame and the
\* tick ends without an event and without a clip; a preview that fails
\* without raising leaves the frame returned.
C14_NoFrameOnException ==
    [][/\ (run_pc \in {"capture", "set_frame"} /\ run_pc' # run_pc)
            => /\ run_pc' \in {"set_frame", "detect", "sleep"}
               /\ run_pc' = "sleep"
                    => /\ frame' = 0
                       /\ UNCHANGED <<events, event_files, clips_started, rc_pc>>
       /\ (run_pc = "set_frame" /\ run_pc' # "set_frame" /\ sf_raised)
            => (frame' = 0 /\ run_pc' = "sleep")
       /\ (run_pc = "set_frame" /\ run_pc' # "set_frame" /\ ~sf_raised)
            => (frame' = sf_frame /\ run_pc' = "detect")]_vars

\* C14 witness: set_frame raised inside capture_frame, and the motion tick
\* has ended with no frame, no event and no clip.
C14_Witness ==
    /\ run_pc = "sleep"
    /\ motion
    /\ sf_raised
    /\ frame = 0
    /\ events = <<>>
    /\ clips_started = 0

\* C15: a tick whose sensor read raised is a no-motion tick: it leaves
\* last_motion_time as it was, does not wake the camera, and goes through
\* the idle check to the sleep of line 310 without a capture, a publish, an
\* event or a clip.
C15_ReadErrorIsNoMotion ==
    [][/\ (run_pc = "poll" /\ run_pc' # "poll" /\ pir' = "error")
            => /\ motion' = FALSE
               /\ run_pc' = "idle_check"
               /\ UNCHANGED <<last_motion_time, camera, events, event_files,
                              clips_started, sf_calls, sf_pc, current_frame>>
       /\ (run_pc = "idle_check" /\ run_pc' # "idle_check" /\ pir = "error")
            => /\ run_pc' = "sleep"
               /\ camera' \in {camera, "None"}
               /\ UNCHANGED <<last_motion_time, events, event_files,
                              clips_started, sf_calls, sf_pc, current_frame>>]_vars

\* C15 witness: after a motion tick that used the open camera, a tick has
\* read the sensor with an error and stands at its idle check with the
\* camera still open.
C15_Witness ==
    /\ run_pc = "idle_check"
    /\ pir = "error"
    /\ ~motion
    /\ camera = "open"
    /\ sf_calls > 0
    /\ last_motion_time >= StartTime

\* C16: never are two clip threads both between their start_recording and
\* their stop_recording, and capture_frame never uses the camera while a
\* clip thread is between the two.
C16_NoOverlappingDeviceUse ==
    /\ [](\A c, d \in Clips :
            (rc_pc[c] = "sleep" /\ rc_pc[d] = "sleep") => c = d)
    /\ [][(run_pc = "capture" /\ run_pc' # "capture" /\ camera # "None")
            => \A c \in Clips : rc_pc[c] # "sleep"]_vars

\* C17: the camera is powered off only by a tick that read no motion, more
\* than IDLE_TIMEOUT seconds after the most recent motion tick; and an open
\* camera is eventually powered off when no motion occurs any more - so the
\* loop never ends with the camera open, because no one else powers it off
\* and a loop that has ended reads no motion any more.
C17_IdleStopOnlyAndEventually ==
    /\ [][(camera # "None" /\ camera' = "None")
            => /\ run_pc = "idle_check"
               /\ ~motion
               /\ pir # "high"
               /\ now - last_motion_time > IDLE_TIMEOUT * TicksPerSecond]_vars
    /\ [][(run_pc = "poll" /\ run_pc' # "poll")
            => last_motion_time' = (IF pir' = "high" THEN now ELSE last_motion_time)]_vars
    /\ [](run_pc = "exited" => camera = "None")

\* C18: for the listing of the faces directory, the label mapping
\* _load_labels rebuilds equals the mapping train assigns, so the labels a
\* recognizer holds after construction are those of training, whether it
\* loaded the persisted model or trained.
C18_LoadedLabelsMatchTraining ==
    /\ load_labels(listing) = train_labels(listing)
    /\ labels = train_labels(listing)

\* C19 (as stated): a clip thread whose stop_recording returned logs exactly
\* one motion_recorded event, and no other motion_recorded event is logged:
\* none for a thread that found the camera unset or whose start_recording or
\* stop_recording raised, and none before the motion_detected event of the
\* same motion tick.
C19_RecordedOncePerClip ==
    /\ [][\A c \in Clips :
            /\ (rc_pc[c] = "log" /\ rc_pc'[c] # "log")
                => /\ Len(events') = Len(events) + 1
                   /\ events'[Len(events')].event_type = "motion_recorded"
                   /\ events'[Len(events')].file_path = rc_path[c]
            /\ (rc_pc[c] # "log" /\ rc_pc'[c] = "log")
                => /\ rc_pc[c] = "sleep"
                   /\ camera # "None"
                   /\ c \notin recorders'
            /\ (rc_pc[c] # "log" /\ rc_pc'[c] # rc_pc[c])
                => (\A i \in 1..Len(events') :
                        i > Len(events) => events'[i].event_type # "motion_recorded")
            /\ rc_pc[c] = "done" => rc_pc'[c] = "done"]_vars
    /\ [](\A i, j \in 1..Len(events) :
            (/\ events[i].event_type = "motion_recorded"
             /\ events[j].event_type = "motion_detected"
             /\ events[i].file_path[2] = events[j].file_path[2])
            => j < i)

\* C19 (amended): a clip thread whose stop_recording returned logs at most
\* one motion_recorded event - one unless the INSERT fails - and no other
\* motion_recorded event is logged: none for a thread that found the camera
\* unset or whose start_recording or stop_recording raised, and none before
\* the motion_detected event of the same motion tick.
C19_RecordedAtMostOncePerClip ==
    /\ [][\A c \in Clips :
            /\ (rc_pc[c] = "log" /\ rc_pc'[c] # "log")
                => \/ events' = events
                   \/ /\ Len(events') = Len(events) + 1
                      /\ events'[Len(events')].event_type = "motion_recorded"
                      /\ events'[Len(events')].file_path = rc_path[c]
            /\ (rc_pc[c] # "log" /\ rc_pc'[c] = "log")
                => /\ rc_pc[c] = "sleep"
                   /\ camera # "None"
                   /\ c \notin recorders'
            /\ (rc_pc[c] # "log" /\ rc_pc'[c] # rc_pc[c])
                => (\A i \in 1..Len(events') :
                        i > Len(events) => events'[i].event_type # "motion_recorded")
            /\ rc_pc[c] = "done" => rc_pc'[c] = "done"]_vars
    /\ [](\A i, j \in 1..Len(events) :
            (/\ events[i].event_type = "motion_recorded"
             /\ events[j].event_type = "motion_detected"
             /\ events[i].file_path[2] = events[j].file_path[2])
            => j < i)

\* C19 witness: the store holds the motion_detected event of a tick and,
\* after it, the motion_recorded event of the clip of that tick, whose
\* thread has ended; the thread of another clip ended without an event.
C19_Witness ==
    /\ \E i, j \in 1..Len(events) :
        /\ j < i
        /\ events[j].event_type = "motion_detected"
        /\ events[i].event_type = "motion_recorded"
        /\ events[i].file_path[2] = events[j].file_path[2]
    /\ \A c \in Clips : rc_pc[c] = "done"
    /\ Len(SelectSeq(events, LAMBDA e : e.event_type = "motion_recorded")) = 1

\* C20: after construction the label mapping and the trained model stay
\* what construction made of the faces directory: no step of an enrolment,
\* of a toggle, of a publish or of a detection changes them; an enrolment
\* that writes changes nothing but the corpus, to which it adds at most one
\* file; and every detection names a person of that one mapping or
\* "Unknown".
C20_ModelFixedAfterStartup ==
    /\ [](/\ labels = constructed_labels(listing)
          /\ model_labels = trained_ids(listing))
    /\ [][UNCHANGED <<listing, labels, model_labels>>]_vars
    /\ [][\A e \in Enrollers :
            (en_pc[e] = "write" /\ en_pc'[e] # "write")
            => /\ UNCHANGED <<listing, labels, model_labels, brokerVars, faces_dir>>
               /\ DOMAIN faces_files \subseteq DOMAIN faces_files'
               /\ Cardinality(DOMAIN faces_files' \ DOMAIN faces_files) <= 1]_vars
    /\ [](\A i \in 1..Len(results) :
            \/ results[i].name = "Unknown"
            \/ \E k \in DOMAIN constructed_labels(listing) :
                    /\ k \in trained_ids(listing)
                    /\ results[i].name = constructed_labels(listing)[k])

\* C20 witness: an enrolment has added its file to the corpus, a frame has
\* been published, and a detection names the person the recognizer was
\* trained on at construction.
C20_Witness ==
    /\ en_pc["enroll_1"] = "idle"
    /\ en_result["enroll_1"] = "success"
    /\ faces_files # <<>>
    /\ sf_calls > 0
    /\ Len(results) = 1
    /\ results[1].name = "alice"
    /\ labels = (0 :> "alice")

\* C3: every detection recognize_faces returns has a label other than
\* "Unknown" when its confidence is below CONFIDENCE_THRESHOLD and the label
\* "Unknown" when its confidence is at or above it.
C3_ThresholdDecidesLabel ==
    \A i \in 1..Len(results) :
        /\ results[i].conf < 70 => results[i].name # "Unknown"
        /\ results[i].conf >= 70 => results[i].name = "Unknown"

C5_NoFrameWhileDisabled ==
    [][\A s \in Streams :
        (gs_pc[s] = "yield" /\ gs_pc'[s] = "suspended")
        => ~(live_preview_enabled = FALSE
             /\ \A t \in Togglers : tg_pc[t] = "idle")]_vars

\* C6: two consecutive frames of one connection are handed to the client at
\* least 1 / stream_fps seconds apart.
C6_RateCap ==
    \A s \in Streams :
        Len(gs_out[s]) = 2 =>
            (gs_out[s][2].time - gs_out[s][1].time) * 15 >= TicksPerSecond

\* C7: the live_preview value a toggle_preview call returns is the value
\* that call wrote.
C7_ToggleReturnsOwnWrite ==
    [][\A t \in Togglers :
        (tg_pc[t] = "return" /\ tg_pc'[t] = "idle")
        => tg_ret'[t] = tg_enable[t]]_vars

\* C8: the current_label and the last_frame_time of a status response were
\* written by one and the same set_frame call, and status changes no shared
\* state.
C8_StatusReadsOnePublish ==
    /\ [](st_pc = "idle" => st_label_call = st_time_call)
    /\ [][st_pc' # st_pc => UNCHANGED <<brokerVars, fsVars>>]_vars

\* C9: a successful enroll_face call adds exactly one new file to the corpus
\* and leaves every file that was there as it was.
C9_EnrollAddsOneFile ==
    [][\A e \in Enrollers :
        (en_pc[e] = "write" /\ en_result'[e] = "success")
        => /\ Cardinality(DOMAIN faces_files') = Cardinality(DOMAIN faces_files) + 1
           /\ \A f \in DOMAIN faces_files : faces_files'[f] = faces_files[f]]_vars

\* C10: an enroll_face call without a name answers "Missing name" and
\* changes neither the corpus directory nor its files nor the broker nor the
\* preview flag; a call that finds neither a frame in memory nor a live
\* snapshot answers "No live frame available"; and a corpus file is written
\* only by a call that has a name and a frame.
C10_FailedEnrollLeavesCorpus ==
    [][/\ \A e \in Enrollers :
            (en_name'[e] = "" /\ en_pc[e] \in {"idle", "name"} /\ en_pc'[e] # en_pc[e])
            => /\ UNCHANGED <<faces_dir, faces_files, brokerVars>>
               /\ en_pc'[e] = "idle" => en_result'[e] = "Missing name"
       /\ \A e \in Enrollers :
            (/\ en_pc[e] = "fallback" /\ en_pc'[e] # "fallback"
             /\ en_frame[e] = 0 /\ live_file = 0)
            => /\ en_pc'[e] = "idle"
               /\ en_result'[e] = "No live frame available"
               /\ UNCHANGED faces_files
       /\ faces_files' # faces_files
            => \E e \in Enrollers :
                /\ en_pc[e] = "write" /\ en_name[e] # "" /\ en_frame[e] # 0
                /\ en_result'[e] = "success"]_vars

\* C10 witness: one request was refused for its missing name, another for
\* the missing frame, and the corpus holds no file.
C10_Witness ==
    /\ \E e \in Enrollers : en_pc[e] = "idle" /\ en_result[e] = "Missing name"
    /\ \E e \in Enrollers :
        en_pc[e] = "idle" /\ en_result[e] = "No live frame available"
    /\ faces_files = <<>>
    /\ current_frame = 0 /\ live_file = 0

\* C21: when a publish of the motion loop has returned, the broker's
\* current_label is the name of the known person capture_frame recognised
\* on the published frame, and "Unknown" when it recognised none.
C21_PublishUpdatesLabel ==
    (run_pc = "set_frame" /\ sf_pc = "idle" /\ ~sf_raised)
    => LET known == { i \in 1..Len(drawn) : drawn[i] # Unknown }
       IN  current_label = IF known = {}
                           THEN Unknown
                           ELSE drawn[CHOOSE i \in known : \A j \in known : i <= j]

\* C22: generate_stream holds camera_lock only while it reads encoded_jpeg
\* and enroll_face only while it copies current_frame: neither holds it
\* when a frame is handed to a client or a file is written; every holder
\* of camera_lock releases it; and a set_frame call that waits for the
\* lock acquires it, whatever the clients of the web server do or fail to
\* do.
C22_ReadersHoldLockForCopyOnly ==
    /\ [](\A s \in Streams : camera_lock = s <=> gs_pc[s] = "read")
    /\ [](\A e \in Enrollers : camera_lock = e <=> en_pc[e] = "copy")
    /\ [][/\ gs_out' # gs_out => camera_lock \notin Streams
          /\ faces_files' # faces_files => camera_lock \notin Enrollers]_vars
    /\ (camera_lock # "free" ~> camera_lock = "free")
    /\ (sf_pc = "lock" ~> camera_lock = "set_frame")

\* C22 witness: the publisher holds the lock for its second frame while
\* the /live client stalls on a frame it was handed and the enrolment is
\* about to write its file.
C22_Witness ==
    /\ camera_lock = "set_frame"
    /\ sf_calls = 2
    /\ gs_pc["live_1"] = "suspended"
    /\ Len(gs_out["live_1"]) >= 1
    /\ en_pc["enroll_1"] = "write"

\* C23: self.camera changes only in a step of run, at its wake_camera or
\* at its idle check, and last_motion_time only in run's poll of the
\* sensor: every step of a record_clip thread, of set_frame, of a /live
\* generator, of an enrolment, of a toggle and of a status request leaves
\* both as they are.
C23_OnlyRunChangesCamera ==
    [][/\ camera' # camera
            => /\ run_pc \in {"wake", "idle_check"}
               /\ run_pc' # run_pc
               /\ UNCHANGED <<clipVars, sfVars, gsVars, tgVars, stVars, enVars>>
       /\ last_motion_time' # last_motion_time
            => /\ run_pc = "poll"
               /\ run_pc' = "wake"
               /\ UNCHANGED <<clipVars, sfVars, gsVars, tgVars, stVars, enVars>>
       /\ (\E c \in Clips : rc_pc[c] # "unborn" /\ rc_pc'[c] # rc_pc[c])
            => UNCHANGED <<camera, last_motion_time>>
       /\ (sf_pc # "idle" /\ sf_pc' # sf_pc)
            => UNCHANGED <<camera, last_motion_time>>
       /\ (gs_pc' # gs_pc \/ tg_pc' # tg_pc \/ st_pc' # st_pc \/ en_pc' # en_pc)
            => UNCHANGED <<camera, last_motion_time>>]_vars

\* C23 witness: a clip thread has recorded on the open camera and stopped
\* its recording, a frame has been published, and the camera is still the
\* one the motion tick left open.
C23_Witness ==
    /\ \E c \in Clips : rc_pc[c] = "log"
    /\ sf_pc = "idle"
    /\ sf_calls > 0
    /\ camera = "open"
    /\ last_motion_time >= StartTime

\* C24: while a record_clip thread is between its camera check, which
\* found the camera open, and its stop_recording call, the camera is open
\* and is the device the thread is recording on: the motion loop does not
\* stop and unset it under the thread.
C24_CameraKeptWhileRecording ==
    \A c \in Clips :
        /\ rc_pc[c] = "start" => camera # None
        /\ rc_pc[c] = "sleep" => (camera # None /\ c \in recorders)

\* C25: whenever a set_frame call has returned, encoded_jpeg is the
\* encoding of current_frame and last_frame_time was written by the call
\* that set current_frame, whether or not that call's encoding succeeded.
C25_BrokerOfOnePublish ==
    (sf_pc = "idle" /\ sf_calls > 0)
    => /\ encoded_jpeg = imencode(current_frame)
       /\ time_call = current_frame

====
